---- MODULE Spec2Model ----
(***************************************************************************)
(* Layout engine of the poster editor: tokenizeText, autoLayout and the    *)
(* line packer of src/src/App.tsx (lines 890-1267, the layoutEngine part), *)
(* and the scene computation of scene.ts (src/unnamed/part_000).           *)
(*                                                                         *)
(* Numbers.  Lengths are integers counted in 1/100 pixel, so 0.5px is 50   *)
(* and 20px is 2000.  Font sizes are whole pixels.  Ratios (line height,   *)
(* glyph metrics) are counted in 1/100, so the product of a font size and  *)
(* a ratio is a length in 1/100 pixel without rounding.  The two divisions *)
(* of the code (the column width and the asset shrink factor) are floor    *)
(* divisions on these units.                                               *)
(*                                                                         *)
(* Strings are sequences of one-character strings.                         *)
(***************************************************************************)
EXTENDS Integers, Sequences, FiniteSets, TLC

VARIABLES
    tokens,        \* autoLayout argument: sequence of LayoutToken
    config,        \* autoLayout argument: LayoutConfig
    safeRect,      \* autoLayout argument: Rect
    autoColumns,   \* autoLayout argument
    ctxAvailable,  \* whether canvas.getContext('2d') yields a context
    layout,        \* what autoLayout returned (NoResult before the call)
    input,         \* tokenizeText argument: the raw text
    assets,        \* tokenizeText argument: the ids of the inline assets
    results,       \* what tokenizeText returned (NoResult before the call)
    attemptArgs,   \* layoutWithConfig arguments: [fontSize, columns]
    attemptResult, \* what layoutWithConfig returned (NoResult before the call)
    canvas,        \* [width, height] of the canvas
    image,         \* the character image: NoImage or its natural size
    characterOptions, \* CharacterOptions: [scale, offsetX, offsetY, margin]
    characterRect, \* the character rectangle: NoRect or a Rect
    padding,       \* SceneOptions: [outer, safe] for outerPadding, safePadding
    safe,          \* what computeSafeRect returned (NoResult before the call)
    textOffset,    \* SceneOptions: [x, y] for textOffsetX, textOffsetY
    scene,         \* what computeScene returned (NoResult before the call)
    layoutUI,      \* App state: [fontSize, minFontSize] of the two sliders
    hookSrc,       \* useLoadedImage: the src of the last render
    hookImage,     \* useLoadedImage: the image state
    hookLoads,     \* useLoadedImage: the Image objects the effects created
    hookEffectPending \* useLoadedImage: the effect of the last render has not run

layoutVars == <<tokens, config, safeRect, autoColumns, ctxAvailable>>

tokenizerVars == <<input, assets>>

geometryVars == <<canvas, image, characterOptions, padding, textOffset>>

hookVars == <<hookSrc, hookImage, hookLoads, hookEffectPending>>

vars == <<layoutVars, layout, tokenizerVars, results, attemptArgs, attemptResult,
          geometryVars, characterRect, safe, scene, layoutUI, hookVars>>

NoResult == [called |-> FALSE]

\* No character image was loaded; no character rectangle was computed.
NoImage == [loaded |-> FALSE]

NoRect == [defined |-> FALSE]

Rect(x, y, width, height) ==
    [defined |-> TRUE, x |-> x, y |-> y, width |-> width, height |-> height]

----------------------------------------------------------------------------
(* Generic helpers *)

Max(a, b) == IF a >= b THEN a ELSE b

Min(a, b) == IF a <= b THEN a ELSE b

RECURSIVE MaxOfSeq(_)
MaxOfSeq(s) == IF s = <<>> THEN 0 ELSE Max(Head(s), MaxOfSeq(Tail(s)))

RECURSIVE Concat(_)
Concat(ss) == IF ss = <<>> THEN <<>> ELSE Head(ss) \o Concat(Tail(ss))

NoDuplicates(s) == \A i, j \in 1..Len(s) : s[i] = s[j] => i = j

RECURSIVE SeqsUpTo(_, _)
SeqsUpTo(S, n) ==
    IF n = 0 THEN {<<>>}
    ELSE LET shorter == SeqsUpTo(S, n - 1)
         IN  shorter \cup {Append(s, x) : s \in shorter, x \in S}

----------------------------------------------------------------------------
(* Warning texts *)

WarnInvalidSafeRect == "invalid safe region"

WarnTooNarrow == "safe area too narrow"

WarnOverflow == "overflow after last column"

WarnDoesNotFit == "content does not fit"

----------------------------------------------------------------------------
(* Measurement provider: CanvasRenderingContext2D.measureText for the      *)
(* glyphs of the model, in 1/100 of the font size.  A metric of 0 is the   *)
(* falsy value the code's || chain skips.                                  *)

Glyphs == {"a", "W"}

GlyphMetrics ==
    [a |-> [width |-> 50, actualBoundingBoxAscent |-> 50,
            actualBoundingBoxDescent |-> 0, fontBoundingBoxAscent |-> 90,
            fontBoundingBoxDescent |-> 20],
     W |-> [width |-> 100, actualBoundingBoxAscent |-> 100,
            actualBoundingBoxDescent |-> 30, fontBoundingBoxAscent |-> 90,
            fontBoundingBoxDescent |-> 20]]

measureText(char, fontSize) ==
    LET m == GlyphMetrics[char]
    IN  [width |-> m.width * fontSize,
         actualBoundingBoxAscent |-> m.actualBoundingBoxAscent * fontSize,
         actualBoundingBoxDescent |-> m.actualBoundingBoxDescent * fontSize,
         fontBoundingBoxAscent |-> m.fontBoundingBoxAscent * fontSize,
         fontBoundingBoxDescent |-> m.fontBoundingBoxDescent * fontSize]

----------------------------------------------------------------------------
(* Line packer *)

NoAsset == [id |-> <<>>, name |-> "none", naturalWidth |-> 0, naturalHeight |-> 0]

TextToken(value) == [type |-> "text", value |-> value, asset |-> NoAsset]

AssetToken(asset) == [type |-> "asset", value |-> <<>>, asset |-> asset]

createLineBuffer(fontSize, lineHeightRatio) ==
    [runs |-> <<>>,
     width |-> 0,
     ascent |-> fontSize * 80,
     descent |-> fontSize * 20,
     height |-> fontSize * lineHeightRatio]

\* One iteration of the loop of pushTextSegment: st is [line, lines, measured].
pushChar(char, st, columnWidth, fontSize, lineHeightRatio) ==
    LET metrics == measureText(char, fontSize)
        width == metrics.width
        ascent == IF metrics.actualBoundingBoxAscent # 0
                  THEN metrics.actualBoundingBoxAscent
                  ELSE IF metrics.fontBoundingBoxAscent # 0
                       THEN metrics.fontBoundingBoxAscent
                       ELSE fontSize * 82
        descent == IF metrics.actualBoundingBoxDescent # 0
                   THEN metrics.actualBoundingBoxDescent
                   ELSE IF metrics.fontBoundingBoxDescent # 0
                        THEN metrics.fontBoundingBoxDescent
                        ELSE fontSize * 18
        wrap == st.line.width + width > columnWidth /\ Len(st.line.runs) > 0
        lines1 == IF wrap THEN Append(st.lines, st.line) ELSE st.lines
        line1 == IF wrap THEN createLineBuffer(fontSize, lineHeightRatio) ELSE st.line
        run == [type |-> "text", value |-> <<char>>, asset |-> NoAsset,
                width |-> width, height |-> line1.height,
                ascent |-> ascent, descent |-> descent]
        ascent2 == Max(line1.ascent, ascent)
        descent2 == Max(line1.descent, descent)
    IN  [line |-> [runs |-> Append(line1.runs, run),
                   width |-> line1.width + width,
                   ascent |-> ascent2,
                   descent |-> descent2,
                   height |-> Max(line1.height, ascent2 + descent2)],
         lines |-> lines1,
         measured |-> st.measured + 1]

RECURSIVE pushTextSegment(_, _, _, _, _)
pushTextSegment(segment, st, columnWidth, fontSize, lineHeightRatio) ==
    IF segment = <<>> THEN st
    ELSE pushTextSegment(Tail(segment),
                         pushChar(Head(segment), st, columnWidth, fontSize, lineHeightRatio),
                         columnWidth, fontSize, lineHeightRatio)

\* asset.naturalWidth / asset.naturalHeight || 1 as a fraction:
\* 0/0 is NaN and n/0 (n > 0) is Infinity; NaN and 0 are falsy.
pushAssetToken(asset, st, columnWidth, fontSize, lineHeightRatio) ==
    LET targetHeight == fontSize * 105
        nw == asset.naturalWidth
        nh == asset.naturalHeight
        infinite == nh = 0 /\ nw > 0
        num == IF nw = 0 THEN 1 ELSE nw
        den == IF nw = 0 THEN 1 ELSE nh
        width0 == IF infinite THEN 0 ELSE (targetHeight * num) \div den
        shrink == infinite \/ width0 > columnWidth
        width == IF shrink THEN columnWidth ELSE width0
        height == IF infinite THEN 0
                  ELSE IF shrink THEN (targetHeight * columnWidth * den) \div (targetHeight * num)
                  ELSE targetHeight
        wrap == st.line.width + width > columnWidth /\ Len(st.line.runs) > 0
        lines1 == IF wrap THEN Append(st.lines, st.line) ELSE st.lines
        line1 == IF wrap THEN createLineBuffer(fontSize, lineHeightRatio) ELSE st.line
        run == [type |-> "asset", value |-> asset.id, asset |-> asset,
                width |-> width, height |-> height,
                ascent |-> height, descent |-> 0]
        height1 == Max(line1.height, height)
        ascent2 == Max(line1.ascent, height)
        descent2 == Max(line1.descent, 0)
    IN  [line |-> [runs |-> Append(line1.runs, run),
                   width |-> line1.width + width,
                   ascent |-> ascent2,
                   descent |-> descent2,
                   height |-> Max(height1, ascent2 + descent2)],
         lines |-> lines1,
         measured |-> st.measured]

\* String.prototype.split('\n')
RECURSIVE split(_)
split(value) ==
    IF value = <<>> THEN << <<>> >>
    ELSE LET rest == split(Tail(value))
         IN  IF Head(value) = "\n" THEN << <<>> >> \o rest
             ELSE << <<Head(value)>> \o Head(rest) >> \o Tail(rest)

\* closeSegment closing a line only when it holds a run.
closeSegmentSkippingEmpty(st, isLast, fontSize, lineHeightRatio) ==
    IF isLast \/ st.line.runs = <<>> THEN st
    ELSE [st EXCEPT !.lines = Append(st.lines, st.line),
                    !.line = createLineBuffer(fontSize, lineHeightRatio)]

\* The end of one forEach iteration: every segment but the last closes its
\* line, also when the line holds no run.
closeSegment(st, isLast, fontSize, lineHeightRatio) ==
    IF isLast THEN st
    ELSE [st EXCEPT !.lines = Append(st.lines, st.line),
                    !.line = createLineBuffer(fontSize, lineHeightRatio)]

\* The forEach over the segments of one text token (segmentIndex counts from 1).
RECURSIVE pushSegments(_, _, _, _, _, _)
pushSegments(segments, segmentIndex, st, columnWidth, fontSize, lineHeightRatio) ==
    IF segmentIndex > Len(segments) THEN st
    ELSE pushSegments(segments, segmentIndex + 1,
                      closeSegment(IF segments[segmentIndex] # <<>>
                                   THEN pushTextSegment(segments[segmentIndex], st,
                                                        columnWidth, fontSize, lineHeightRatio)
                                   ELSE st,
                                   segmentIndex = Len(segments), fontSize, lineHeightRatio),
                      columnWidth, fontSize, lineHeightRatio)

\* The loop over the tokens: the list of lines the packer produces.
RECURSIVE packTokens(_, _, _, _, _)
packTokens(toks, st, columnWidth, fontSize, lineHeightRatio) ==
    IF toks = <<>> THEN st
    ELSE packTokens(Tail(toks),
                    IF Head(toks).type = "text"
                    THEN pushSegments(split(Head(toks).value), 1, st,
                                      columnWidth, fontSize, lineHeightRatio)
                    ELSE pushAssetToken(Head(toks).asset, st,
                                        columnWidth, fontSize, lineHeightRatio),
                    columnWidth, fontSize, lineHeightRatio)

\* finishLines pushing the last line only when no line was closed.
finishLinesDroppingLast(st) ==
    [lines |-> IF Len(st.lines) = 0 THEN Append(st.lines, st.line) ELSE st.lines,
     measured |-> st.measured]

\* The push of the last line: when it holds a run or no line was closed.
finishLines(st) ==
    [lines |-> IF Len(st.line.runs) > 0 \/ Len(st.lines) = 0
               THEN Append(st.lines, st.line)
               ELSE st.lines,
     measured |-> st.measured]

packLines(toks, columnWidth, fontSize, lineHeightRatio) ==
    finishLines(packTokens(toks,
                           [line |-> createLineBuffer(fontSize, lineHeightRatio),
                            lines |-> <<>>, measured |-> 0],
                           columnWidth, fontSize, lineHeightRatio))

\* The placements of the runs of one line.
RECURSIVE placeRuns(_, _, _, _, _, _, _, _)
placeRuns(runs, line, left, cursorX, cursorY, baseline, columnIndex, rect) ==
    IF runs = <<>> THEN <<>>
    ELSE LET run == Head(runs)
             runHeight == IF run.type = "asset" THEN run.height ELSE line.height
         IN  << [type |-> run.type,
                 value |-> run.value,
                 asset |-> run.asset,
                 x |-> left + cursorX,
                 y |-> rect.y + cursorY,
                 width |-> run.width,
                 height |-> runHeight,
                 baseline |-> rect.y + baseline,
                 lineHeight |-> line.height,
                 column |-> columnIndex] >>
             \o placeRuns(Tail(runs), line, left, cursorX + run.width, cursorY,
                          baseline, columnIndex, rect)

HalfPixel == 50

\* Whether a line no longer fits under the cursor of the current column.
columnFull(cursorY, lineHeight, rect) == cursorY + lineHeight > rect.height + HalfPixel

\* The loop over the lines: cs is [placements, columnHeights, columnIndex,
\* cursorY, failed]; columnIndex counts from 0 as in the code.
RECURSIVE placeLines(_, _, _, _, _, _)
placeLines(lines, cs, rect, columns, columnWidth, columnGap) ==
    IF lines = <<>> \/ cs.failed THEN cs
    ELSE LET line == Head(lines)
             advance == columnFull(cs.cursorY, line.height, rect)
             heights1 == IF advance
                         THEN [cs.columnHeights EXCEPT ![cs.columnIndex + 1] = cs.cursorY]
                         ELSE cs.columnHeights
             columnIndex == IF advance THEN cs.columnIndex + 1 ELSE cs.columnIndex
         IN  IF advance /\ columnIndex >= columns
             THEN [cs EXCEPT !.failed = TRUE, !.columnHeights = heights1,
                             !.columnIndex = columnIndex]
             ELSE LET cursorY == IF advance THEN 0 ELSE cs.cursorY
                      left == rect.x + columnIndex * (columnWidth + columnGap)
                      slack == line.height - (line.ascent + line.descent)
                      baseline == cursorY + line.ascent + Max(0, slack \div 2)
                  IN  placeLines(Tail(lines),
                                 [placements |-> cs.placements \o
                                      placeRuns(line.runs, line, left, 0, cursorY,
                                                baseline, columnIndex, rect),
                                  columnHeights |-> heights1,
                                  columnIndex |-> columnIndex,
                                  cursorY |-> cursorY + line.height,
                                  failed |-> FALSE],
                                 rect, columns, columnWidth, columnGap)

MinColumnWidth == 2000

tooNarrow(columnWidth) == columnWidth <= MinColumnWidth

\* The result of layoutWithConfig once the lines are placed.  The fields
\* packed and measured are bookkeeping of the model: whether the line packer
\* ran and how many characters it measured.
layoutAttempt(cs, measured) ==
    IF cs.failed
    THEN [success |-> FALSE, placements |-> <<>>, overflow |-> TRUE,
          warnings |-> <<WarnOverflow>>,
          columnHeights |-> cs.columnHeights,
          packed |-> TRUE, measured |-> measured]
    ELSE [success |-> TRUE, placements |-> cs.placements, overflow |-> FALSE,
          warnings |-> <<>>,
          columnHeights |-> [cs.columnHeights EXCEPT ![cs.columnIndex + 1] = cs.cursorY],
          packed |-> TRUE, measured |-> measured]

placePacked(packed, rect, columns, columnWidth, columnGap) ==
    layoutAttempt(placeLines(packed.lines,
                             [placements |-> <<>>,
                              columnHeights |-> [i \in 1..columns |-> 0],
                              columnIndex |-> 0, cursorY |-> 0, failed |-> FALSE],
                             rect, columns, columnWidth, columnGap),
                  packed.measured)

layoutWithConfig(toks, rect, fontSize, columns, cfg) ==
    LET columnGap == cfg.columnGap
        totalGap == columnGap * (columns - 1)
        columnWidth == (rect.width - totalGap) \div columns
    IN  IF tooNarrow(columnWidth)
        THEN [success |-> FALSE, placements |-> <<>>, overflow |-> TRUE,
              warnings |-> <<WarnTooNarrow>>,
              columnHeights |-> [i \in 1..columns |-> 0],
              packed |-> FALSE, measured |-> 0]
        ELSE placePacked(packLines(toks, columnWidth, fontSize, cfg.lineHeight),
                         rect, columns, columnWidth, columnGap)

----------------------------------------------------------------------------
(* Tokenizer *)

\* The literal parts of ASSET_TOKEN_REGEX = /\[\[asset:([^\]]+)\]\]/g
MarkerPrefix == <<"[", "[", "a", "s", "s", "e", "t", ":">>

MarkerSuffix == <<"]", "]">>

\* String.prototype.slice(start, end) with 0-based start and exclusive end.
slice(str, start, end) == SubSeq(str, start + 1, end)

\* The 0-based index of the first "]" at or after index from, or Len(str).
RECURSIVE firstCloser(_, _)
firstCloser(str, from) ==
    IF from >= Len(str) THEN Len(str)
    ELSE IF str[from + 1] = "]" THEN from
    ELSE firstCloser(str, from + 1)

\* The length of the match of the regex that starts at the 0-based index
\* offset, or 0 when there is none: the prefix, then the longest run of
\* characters other than "]" (at least one), then "]]".
matchLength(str, offset) ==
    LET idStart == offset + Len(MarkerPrefix)
        idEnd == firstCloser(str, idStart)
    IN  IF /\ idStart <= Len(str)
           /\ slice(str, offset, idStart) = MarkerPrefix
           /\ idEnd > idStart
           /\ idEnd + Len(MarkerSuffix) <= Len(str)
           /\ slice(str, idEnd, idEnd + Len(MarkerSuffix)) = MarkerSuffix
        THEN idEnd + Len(MarkerSuffix) - offset
        ELSE 0

\* The 0-based index of the leftmost match at or after index from, or -1.
RECURSIVE nextMatch(_, _)
nextMatch(str, from) ==
    IF from >= Len(str) THEN -1
    ELSE IF matchLength(str, from) > 0 THEN from
    ELSE nextMatch(str, from + 1)

\* assetMap.get(assetId): the asset of that id, or NoAsset for undefined.
assetMapGet(assetSet, assetId) ==
    IF \E a \in assetSet : a.id = assetId
    THEN CHOOSE a \in assetSet : a.id = assetId
    ELSE NoAsset

\* The text between the previous match and this one, pushed when not empty.
pushGapSkippingOne(out, str, lastIndex, offset) ==
    IF offset > lastIndex + 1 /\ slice(str, lastIndex, offset) # <<>>
    THEN Append(out, TextToken(slice(str, lastIndex, offset)))
    ELSE out

pushGap(out, str, lastIndex, offset) ==
    IF offset > lastIndex /\ slice(str, lastIndex, offset) # <<>>
    THEN Append(out, TextToken(slice(str, lastIndex, offset)))
    ELSE out

\* The token of a match: the asset when the id is registered (asset is not
\* NoAsset), otherwise the matched text itself.
pushMarkerMerging(out, asset, match) ==
    IF asset # NoAsset THEN Append(out, AssetToken(asset))
    ELSE IF out # <<>> /\ out[Len(out)].type = "text"
         THEN [out EXCEPT ![Len(out)] =
                                  TextToken(out[Len(out)].value \o match)]
         ELSE Append(out, TextToken(match))

pushMarker(out, asset, match) ==
    IF asset # NoAsset THEN Append(out, AssetToken(asset))
    ELSE Append(out, TextToken(match))

\* The callback of input.replace for the match at offset: st is
\* [results, lastIndex].
onMatch(str, assetSet, st, offset) ==
    LET match == slice(str, offset, offset + matchLength(str, offset))
        assetId == slice(match, Len(MarkerPrefix), Len(match) - Len(MarkerSuffix))
        asset == assetMapGet(assetSet, assetId)
    IN  [results |-> pushMarker(pushGap(st.results, str, st.lastIndex, offset),
                                asset, match),
         lastIndex |-> offset + Len(match)]

\* input.replace(ASSET_TOKEN_REGEX, callback): the callback runs for every
\* match, leftmost first, the search resuming at the end of the match.
RECURSIVE replaceLoop(_, _, _, _)
replaceLoop(str, assetSet, st, from) ==
    LET offset == nextMatch(str, from)
    IN  IF offset < 0 THEN st
        ELSE replaceLoop(str, assetSet, onMatch(str, assetSet, st, offset),
                         offset + matchLength(str, offset))

\* tokenizeText without the fallback for an empty result list.
tokenizeTextNoFallback(str, assetSet) ==
    LET st == replaceLoop(str, assetSet, [results |-> <<>>, lastIndex |-> 0], 0)
        tail == slice(str, st.lastIndex, Len(str))
    IN  IF tail # <<>> THEN Append(st.results, TextToken(tail)) ELSE st.results

tokenizeText(str, assetSet) ==
    LET st == replaceLoop(str, assetSet, [results |-> <<>>, lastIndex |-> 0], 0)
        tail == slice(str, st.lastIndex, Len(str))
        results1 == IF tail # <<>> THEN Append(st.results, TextToken(tail)) ELSE st.results
    IN  IF Len(results1) = 0 THEN <<TextToken(<<>>)>> ELSE results1

----------------------------------------------------------------------------
(* Layout search *)

FontSizeStep == 2

\* The condition of the for loop of findFontSizeForColumns.
fontSizeInRangeLoose(fontSize, cfg) == fontSize > cfg.minFontSize - FontSizeStep

fontSizeInRange(fontSize, cfg) == fontSize >= cfg.minFontSize

\* The loop of findFontSizeForColumns from fontSize downwards, and the part
\* of one iteration after the call of layoutWithConfig returned attempt.
\* attempts is bookkeeping of the model: one entry per call of
\* layoutWithConfig.
RECURSIVE fontSizeLoop(_, _, _, _, _, _, _)
fontSizeStep(toks, rect, cfg, columns, fontSize, warnings, attempts, attempt) ==
    IF attempt.success
    THEN [success |-> TRUE, placements |-> attempt.placements,
          fontSize |-> fontSize, warnings |-> warnings \o attempt.warnings,
          columnHeights |-> attempt.columnHeights,
          attempts |-> Append(attempts,
                              [columns |-> columns, fontSize |-> fontSize,
                               success |-> TRUE, warnings |-> attempt.warnings,
                               packed |-> attempt.packed,
                               measured |-> attempt.measured])]
    ELSE fontSizeLoop(toks, rect, cfg, columns, fontSize - FontSizeStep,
                      warnings \o attempt.warnings,
                      Append(attempts,
                             [columns |-> columns, fontSize |-> fontSize,
                              success |-> FALSE, warnings |-> attempt.warnings,
                              packed |-> attempt.packed,
                              measured |-> attempt.measured]))

fontSizeLoop(toks, rect, cfg, columns, fontSize, warnings, attempts) ==
    IF ~fontSizeInRange(fontSize, cfg)
    THEN [success |-> FALSE, placements |-> <<>>, fontSize |-> cfg.minFontSize,
          warnings |-> warnings, columnHeights |-> <<>>, attempts |-> attempts]
    ELSE fontSizeStep(toks, rect, cfg, columns, fontSize, warnings, attempts,
                      layoutWithConfig(toks, rect, fontSize, columns, cfg))

findFontSizeForColumns(toks, rect, cfg, columns) ==
    fontSizeLoop(toks, rect, cfg, columns, cfg.fontSize, <<>>, <<>>)

\* The guard of the early return of autoLayout.
degenerateStrict(rect) == rect.width < 0 \/ rect.height < 0

degenerate(rect) == rect.width <= 0 \/ rect.height <= 0

\* The column counts autoLayout tries, in order.
columnCandidatesDescending(autoCols, cfg) ==
    LET maxColumns == IF autoCols THEN Max(1, cfg.maxColumns) ELSE 1
    IN  IF autoCols THEN [idx \in 1..maxColumns |-> maxColumns + 1 - idx] ELSE <<1>>

columnCandidates(autoCols, cfg) ==
    LET maxColumns == IF autoCols THEN Max(1, cfg.maxColumns) ELSE 1
    IN  IF autoCols THEN [idx \in 1..maxColumns |-> idx] ELSE <<1>>

\* The warnings of the failure result of autoLayout.
failureWarningsUnchecked(warnings) == warnings

failureWarnings(warnings) ==
    IF Len(warnings) > 0 THEN warnings ELSE <<WarnDoesNotFit>>

\* The loop of autoLayout over the column candidates, and the part of one
\* iteration after findFontSizeForColumns returned attempt.
RECURSIVE columnLoop(_, _, _, _, _, _)
columnStep(toks, cfg, rect, candidates, warnings, attempts, attempt) ==
    IF attempt.success
    THEN [called |-> TRUE, threw |-> FALSE, ctxCreated |-> TRUE,
          success |-> TRUE, placements |-> attempt.placements,
          fontSize |-> attempt.fontSize, columns |-> Head(candidates),
          columnHeights |-> attempt.columnHeights,
          warnings |-> warnings \o attempt.warnings,
          attempts |-> attempts \o attempt.attempts]
    ELSE columnLoop(toks, cfg, rect, Tail(candidates),
                    warnings \o attempt.warnings,
                    attempts \o attempt.attempts)

columnLoop(toks, cfg, rect, candidates, warnings, attempts) ==
    IF candidates = <<>>
    THEN [called |-> TRUE, threw |-> FALSE, ctxCreated |-> TRUE,
          success |-> FALSE, placements |-> <<>>, fontSize |-> cfg.minFontSize,
          columns |-> 1, columnHeights |-> <<>>,
          warnings |-> failureWarnings(warnings), attempts |-> attempts]
    ELSE columnStep(toks, cfg, rect, candidates, warnings, attempts,
                    findFontSizeForColumns(toks, rect, cfg, Head(candidates)))

\* autoLayout.  ctxOk is whether createMeasureContext obtains a 2d context;
\* threw, ctxCreated and attempts are bookkeeping of the model.
autoLayout(toks, cfg, rect, autoCols, ctxOk) ==
    IF degenerate(rect)
    THEN [called |-> TRUE, threw |-> FALSE, ctxCreated |-> FALSE,
          success |-> FALSE, placements |-> <<>>, fontSize |-> cfg.minFontSize,
          columns |-> 1, columnHeights |-> <<>>,
          warnings |-> <<WarnInvalidSafeRect>>, attempts |-> <<>>]
    ELSE IF ~ctxOk
    THEN [called |-> TRUE, threw |-> TRUE, ctxCreated |-> FALSE,
          success |-> FALSE, placements |-> <<>>, fontSize |-> cfg.minFontSize,
          columns |-> 1, columnHeights |-> <<>>,
          warnings |-> <<>>, attempts |-> <<>>]
    ELSE columnLoop(toks, cfg, rect, columnCandidates(autoCols, cfg), <<>>, <<>>)

----------------------------------------------------------------------------
(* The values of the arguments a specification does not use: the settings  *)
(* of the editor before any change (useState in App), nothing computed.    *)

DefaultConfig ==
    [fontSize |-> 84, minFontSize |-> 32, lineHeight |-> 128,
     maxColumns |-> 2, columnGap |-> 4800]

DefaultCanvas == [width |-> 108000, height |-> 108000]

DefaultCharacterOptions ==
    [scale |-> 42, offsetX |-> 0, offsetY |-> 0, margin |-> 4800]

DefaultPadding == [outer |-> 7200, safe |-> 4000]

DefaultOffset == [x |-> 0, y |-> 0]

LayoutIdle ==
    /\ tokens = <<TextToken(<<>>)>>
    /\ config = DefaultConfig
    /\ safeRect = [x |-> 0, y |-> 0, width |-> 0, height |-> 0]
    /\ autoColumns = TRUE
    /\ ctxAvailable = TRUE
    /\ layout = NoResult

TokenizerIdle ==
    /\ input = <<>>
    /\ assets = {}
    /\ results = NoResult

AttemptIdle ==
    /\ attemptArgs = [fontSize |-> DefaultConfig.fontSize, columns |-> 1]
    /\ attemptResult = NoResult

GeometryIdle ==
    /\ canvas = DefaultCanvas
    /\ image = NoImage
    /\ characterOptions = DefaultCharacterOptions
    /\ characterRect = NoRect
    /\ padding = DefaultPadding
    /\ safe = NoResult
    /\ textOffset = DefaultOffset
    /\ scene = NoResult

DefaultLayoutUI == [fontSize |-> DefaultConfig.fontSize,
                    minFontSize |-> DefaultConfig.minFontSize]

NoSource == "null"

UiIdle ==
    /\ layoutUI = DefaultLayoutUI
    /\ hookSrc = NoSource
    /\ hookImage = NoImage
    /\ hookLoads = <<>>
    /\ hookEffectPending = FALSE

----------------------------------------------------------------------------
(* Inputs of the layout specification *)

MaxItems == 3

MaxCols == 2

InlineAssets ==
    {[id |-> <<"x", "1">>, name |-> "x1", naturalWidth |-> 3, naturalHeight |-> 1],
     [id |-> <<"x", "2">>, name |-> "x2", naturalWidth |-> 1, naturalHeight |-> 0]}

\* A content is a sequence of characters and asset names.
Items == Glyphs \cup {"\n"} \cup {a.name : a \in InlineAssets}

AssetByName(name) == CHOOSE a \in InlineAssets : a.name = name

IsAssetName(item) == \E a \in InlineAssets : a.name = item

\* The token sequence of a content: maximal runs of characters are one text
\* token, every asset is one asset token, and no content is one empty text.
RECURSIVE TokensOf(_)
TokensOf(items) ==
    IF items = <<>> THEN <<>>
    ELSE LET rest == TokensOf(Tail(items))
             item == Head(items)
         IN  IF IsAssetName(item) THEN <<AssetToken(AssetByName(item))>> \o rest
             ELSE IF rest # <<>> /\ Head(rest).type = "text"
                  THEN <<TextToken(<<item>> \o Head(rest).value)>> \o Tail(rest)
                  ELSE <<TextToken(<<item>>)>> \o rest

TokenSeqs ==
    {IF items = <<>> THEN <<TextToken(<<>>)>> ELSE TokensOf(items) :
        items \in SeqsUpTo(Items, MaxItems)}

\* The pairs <<fontSize, minFontSize>>: two sizes tried with an even and with
\* an odd difference, one size tried, and none (fontSize below minFontSize).
FontSizePairs == {<<12, 10>>, <<12, 9>>, <<10, 9>>, <<10, 13>>}

Configs ==
    {[fontSize |-> p[1], minFontSize |-> p[2], lineHeight |-> 120,
      maxColumns |-> m, columnGap |-> 400] :
        p \in FontSizePairs, m \in 0..MaxCols}

SafeRects ==
    [x : {1000}, y : {500}, width : {0, 2200, 5000}, height : {0, 1100, 2600}]

TypeOK ==
    /\ tokens \in TokenSeqs
    /\ config \in Configs
    /\ safeRect \in SafeRects
    /\ autoColumns \in BOOLEAN
    /\ ctxAvailable \in BOOLEAN

Init ==
    /\ tokens \in TokenSeqs
    /\ config \in Configs
    /\ safeRect \in SafeRects
    /\ autoColumns \in BOOLEAN
    /\ ctxAvailable \in BOOLEAN
    /\ layout = NoResult
    /\ TokenizerIdle
    /\ AttemptIdle
    /\ UiIdle
    /\ GeometryIdle

\* A call of autoLayout(tokens, config, safeRect, autoColumns).
AutoLayout ==
    /\ ~layout.called
    /\ layout' = autoLayout(tokens, config, safeRect, autoColumns, ctxAvailable)
    /\ UNCHANGED <<layoutUI, hookVars, layoutVars, tokenizerVars, results, attemptArgs, attemptResult,
                   geometryVars, characterRect, safe, scene>>

Next == AutoLayout

Spec == Init /\ [][Next]_vars

----------------------------------------------------------------------------
(* Properties of autoLayout *)

Returned == layout.called /\ ~layout.threw

\* The column counts and font sizes the search is specified to try.
SpecifiedColumns == IF autoColumns THEN 1..Max(1, config.maxColumns) ELSE {1}

SpecifiedFontSizes ==
    {f \in config.minFontSize..config.fontSize : (config.fontSize - f) % 2 = 0}

Fits(columns, fontSize) ==
    layoutWithConfig(tokens, safeRect, fontSize, columns, config).success

\* C1: in a successful result every column height is at most
\* safeRect.height + 0.5.
C1_ColumnHeightsWithinSafeRect ==
    (Returned /\ layout.success) =>
        \A i \in 1..Len(layout.columnHeights) :
            layout.columnHeights[i] <= safeRect.height + 50

\* C2: the attempts are made in the order columns ascending, font size
\* descending in steps of 2 from config.fontSize, and a successful result is
\* the first success in that order: no smaller column count fits at any
\* specified font size, no larger specified font size fits at the returned
\* column count, and the returned combination fits.
C2_FirstSuccessWins ==
    Returned =>
        /\ \A i \in 1..Len(layout.attempts) :
              /\ layout.attempts[i].columns \in SpecifiedColumns
              /\ layout.attempts[i].fontSize \in SpecifiedFontSizes
        /\ Len(layout.attempts) > 0 =>
              /\ layout.attempts[1].columns = 1
              /\ layout.attempts[1].fontSize = config.fontSize
        /\ \A i \in 1..(Len(layout.attempts) - 1) :
              LET a == layout.attempts[i]
                  b == layout.attempts[i + 1]
              IN  \/ b.columns = a.columns /\ b.fontSize = a.fontSize - 2
                  \/ /\ b.columns = a.columns + 1
                     /\ b.fontSize = config.fontSize
                     /\ a.fontSize - 2 < config.minFontSize
        /\ layout.success =>
              /\ layout.columns \in SpecifiedColumns
              /\ layout.fontSize \in SpecifiedFontSizes
              /\ Fits(layout.columns, layout.fontSize)
              /\ \A c \in SpecifiedColumns, f \in SpecifiedFontSizes :
                    c < layout.columns => ~Fits(c, f)
              /\ \A f \in SpecifiedFontSizes :
                    f > layout.fontSize => ~Fits(layout.columns, f)

\* C2 witness: a result with two columns at a font size below config.fontSize.
C2_Witness ==
    /\ Returned /\ layout.success
    /\ layout.columns = 2
    /\ layout.fontSize < config.fontSize

\* C3: the warnings of a returned layout hold no two equal strings.
C3_WarningsDistinct == Returned => NoDuplicates(layout.warnings)

\* C4: when the content can be packed at minFontSize with the largest
\* column count (and config.fontSize is not below minFontSize), autoLayout
\* succeeds.
C4_FitsAtMinimumSucceeds ==
    (/\ Returned
     /\ safeRect.width > 0 /\ safeRect.height > 0
     /\ config.fontSize >= config.minFontSize
     /\ \A c \in SpecifiedColumns :
           (\A d \in SpecifiedColumns : d <= c) => Fits(c, config.minFontSize))
        => layout.success

\* C5: a successful result has fontSize = config.fontSize - 2k >= minFontSize
\* for some k >= 0, and columns between 1 and max(1, config.maxColumns).
C5_FontSizeAndColumnsInRange ==
    (Returned /\ layout.success) =>
        /\ \E k \in 0..config.fontSize : layout.fontSize = config.fontSize - 2 * k
        /\ layout.fontSize >= config.minFontSize
        /\ layout.columns >= 1
        /\ layout.columns <= Max(1, config.maxColumns)

\* C5 witness: a success at a font size below config.fontSize.
C5_Witness ==
    /\ Returned /\ layout.success
    /\ layout.fontSize < config.fontSize

\* The column width of a column count, as the spec states it.
SpecifiedColumnWidth(columns) ==
    (safeRect.width - config.columnGap * (columns - 1)) \div columns

AttemptsFor(columns) ==
    {i \in 1..Len(layout.attempts) : layout.attempts[i].columns = columns}

\* C6: a column count whose column width is below the minimum is attempted
\* at most once (not once per font size), so that its reason is recorded
\* once.
C6_TooNarrowTriedOnce ==
    Returned =>
        \A c \in SpecifiedColumns :
            SpecifiedColumnWidth(c) < 2000 =>
                /\ Cardinality(AttemptsFor(c)) <= 1
                /\ Cardinality({i \in AttemptsFor(c) : layout.attempts[i].packed}) <= 1

RECURSIVE AttemptWarnings(_)
AttemptWarnings(attempts) ==
    IF attempts = <<>> THEN <<>>
    ELSE Head(attempts).warnings \o AttemptWarnings(Tail(attempts))

\* C7: autoLayout throws only when no measurement context can be obtained,
\* never because the content does not fit; it fails exactly when every
\* specified combination fails, and then returns no placement and a
\* non-empty warnings list: the warnings of the attempts, or the generic
\* message when there is none.
C7_FailureIsAResult ==
    layout.called =>
        /\ layout.threw => ~ctxAvailable
        /\ (Returned /\ safeRect.width > 0 /\ safeRect.height > 0) =>
              /\ layout.success <=>
                    \E c \in SpecifiedColumns, f \in SpecifiedFontSizes : Fits(c, f)
              /\ ~layout.success =>
                    /\ layout.placements = <<>>
                    /\ Len(layout.warnings) > 0
                    /\ layout.warnings =
                          IF AttemptWarnings(layout.attempts) # <<>>
                          THEN AttemptWarnings(layout.attempts)
                          ELSE <<WarnDoesNotFit>>

\* C7 witness: no font size is tried and the generic message is returned.
C7_Witness ==
    /\ Returned /\ ~layout.success
    /\ safeRect.width > 0 /\ safeRect.height > 0
    /\ config.fontSize < config.minFontSize
    /\ layout.attempts = <<>>
    /\ layout.warnings = <<WarnDoesNotFit>>

\* The number of characters measured over the attempts.
RECURSIVE MeasuredTotal(_)
MeasuredTotal(attempts) ==
    IF attempts = <<>> THEN 0
    ELSE Head(attempts).measured + MeasuredTotal(Tail(attempts))

\* C8: with safeRect.width <= 0 or safeRect.height <= 0 autoLayout returns a
\* failure with exactly the invalid-safe-region warning, makes no attempt,
\* creates no measurement context (so it cannot throw for the lack of one)
\* and measures no character.
C8_DegenerateShortCircuits ==
    (layout.called /\ (safeRect.width <= 0 \/ safeRect.height <= 0)) =>
        /\ ~layout.threw
        /\ ~layout.success
        /\ layout.placements = <<>>
        /\ layout.warnings = <<WarnInvalidSafeRect>>
        /\ ~layout.ctxCreated
        /\ layout.attempts = <<>>
        /\ MeasuredTotal(layout.attempts) = 0

\* C8 witness: a degenerate safe rectangle, with no context available.
C8_Witness ==
    /\ layout.called
    /\ safeRect.width = 0 /\ safeRect.height > 0
    /\ ~ctxAvailable
    /\ layout.warnings = <<WarnInvalidSafeRect>>

----------------------------------------------------------------------------
(* Inputs of the tokenizer specification *)

MaxFragments == 4

\* The pieces inputs are built from: plain text, the parts of a marker, and
\* whole markers of a registered and of an unregistered id.
Fragments ==
    {<<"a", "b", "c">>, <<"d", "e", "f">>, MarkerPrefix, MarkerSuffix, <<"]">>,
     <<"x", "1">>,
     MarkerPrefix \o <<"x", "1">> \o MarkerSuffix,
     MarkerPrefix \o <<"m", "i", "s", "s", "i", "n", "g">> \o MarkerSuffix}

Inputs == {Concat(fs) : fs \in SeqsUpTo(Fragments, MaxFragments)}

InitTokenize ==
    /\ input \in Inputs
    /\ assets \in {{}, InlineAssets}
    /\ results = NoResult
    /\ LayoutIdle
    /\ AttemptIdle
    /\ UiIdle
    /\ GeometryIdle

\* A call of tokenizeText(input, assets).
TokenizeText ==
    /\ ~results.called
    /\ results' = [called |-> TRUE, tokens |-> tokenizeText(input, assets)]
    /\ UNCHANGED <<layoutUI, hookVars, layoutVars, layout, tokenizerVars, attemptArgs, attemptResult,
                   geometryVars, characterRect, safe, scene>>

NextTokenize == TokenizeText

SpecTokenize == InitTokenize /\ [][NextTokenize]_vars

----------------------------------------------------------------------------
(* Properties of tokenizeText *)

\* The text a token stands for: its value, or the marker of its asset.
Render(token) ==
    IF token.type = "text" THEN token.value
    ELSE MarkerPrefix \o token.asset.id \o MarkerSuffix

RECURSIVE RenderAll(_)
RenderAll(toks) ==
    IF toks = <<>> THEN <<>> ELSE Render(Head(toks)) \o RenderAll(Tail(toks))

\* C9: rendering the tokens in order reconstructs the input.
C9_TokensReconstructInput ==
    results.called => RenderAll(results.tokens) = input

\* C9 witness: an input of text, a resolved marker and an unresolved one.
C9_Witness ==
    /\ results.called
    /\ Len(results.tokens) = 3
    /\ results.tokens[1].type = "text"
    /\ results.tokens[2].type = "asset"
    /\ results.tokens[3] =
          TextToken(MarkerPrefix \o <<"m", "i", "s", "s", "i", "n", "g">> \o MarkerSuffix)

\* Whether input[i..j] (1-based, inclusive) is a marker.
IsMarker(str, i, j) ==
    /\ 1 <= i /\ j <= Len(str)
    /\ j - i + 1 > Len(MarkerPrefix) + Len(MarkerSuffix)
    /\ str[i] = "[" /\ str[j] = "]" /\ str[j - 1] = "]"
    /\ SubSeq(str, i, i + Len(MarkerPrefix) - 1) = MarkerPrefix
    /\ \A k \in (i + Len(MarkerPrefix))..(j - 2) : str[k] # "]"

\* The marker occurrences of the input, read left to right without overlap:
\* pairs <<i, j>> such that no occurrence starts inside an earlier one.
RECURSIVE Occurrences(_, _)
Occurrences(str, from) ==
    LET starts == {i \in from..Len(str) :
                      str[i] = "[" /\ \E j \in i..Len(str) : IsMarker(str, i, j)}
    IN  IF starts = {} THEN <<>>
        ELSE LET i == CHOOSE m \in starts : \A n \in starts : m <= n
                 j == CHOOSE n \in i..Len(str) : IsMarker(str, i, n)
             IN  << <<i, j>> >> \o Occurrences(str, j + 1)

\* The 1-based position in the rendered text at which token k starts.
StartOf(toks, k) == Len(RenderAll(SubSeq(toks, 1, k - 1))) + 1

\* The tokens that stand for a marker: asset tokens and marker-shaped texts.
MarkerTokens(toks) ==
    {k \in 1..Len(toks) :
        \/ toks[k].type = "asset"
        \/ IsMarker(toks[k].value, 1, Len(toks[k].value))}

AbcX1Def ==
    <<"a", "b", "c">> \o MarkerPrefix \o <<"x", "1">> \o MarkerSuffix \o <<"d", "e", "f">>

AbcMissingDef ==
    <<"a", "b", "c">> \o MarkerPrefix \o <<"m", "i", "s", "s", "i", "n", "g">>
        \o MarkerSuffix \o <<"d", "e", "f">>

\* C10: every marker occurrence is exactly one token at its position, an
\* asset token of that id when the id is registered and otherwise a text
\* token holding the literal marker alone; no other token stands for a
\* marker; and the two examples tokenize as stated.
C10_OneTokenPerMarker ==
    results.called =>
        LET toks == results.tokens
            occ == Occurrences(input, 1)
        IN  /\ \A n \in 1..Len(occ) :
                  LET i == occ[n][1]
                      j == occ[n][2]
                      id == SubSeq(input, i + Len(MarkerPrefix), j - Len(MarkerSuffix))
                  IN  \E k \in 1..Len(toks) :
                          /\ StartOf(toks, k) = i
                          /\ IF \E a \in assets : a.id = id
                             THEN toks[k].type = "asset" /\ toks[k].asset.id = id
                                  /\ toks[k].asset \in assets
                             ELSE toks[k] = TextToken(SubSeq(input, i, j))
            /\ Cardinality(MarkerTokens(toks)) = Len(occ)
            /\ (input = AbcX1Def /\ AssetByName("x1") \in assets) =>
                  toks = <<TextToken(<<"a", "b", "c">>),
                           AssetToken(AssetByName("x1")),
                           TextToken(<<"d", "e", "f">>)>>
            /\ input = AbcMissingDef =>
                  toks = <<TextToken(<<"a", "b", "c">>),
                           TextToken(MarkerPrefix \o <<"m", "i", "s", "s", "i", "n", "g">>
                                         \o MarkerSuffix),
                           TextToken(<<"d", "e", "f">>)>>

\* C10 witness: the second example has been tokenized.
C10_Witness ==
    /\ results.called
    /\ input = AbcMissingDef
    /\ Len(results.tokens) = 3

\* C11: tokenizeText never returns an empty sequence: the empty input gives
\* exactly one empty Text token, an input without a marker gives exactly one
\* Text token holding the whole input, and no other returned Text token is
\* empty.
C11_NeverEmptyResult ==
    results.called =>
        LET toks == results.tokens
        IN  /\ Len(toks) >= 1
            /\ input = <<>> => toks = <<TextToken(<<>>)>>
            /\ Occurrences(input, 1) = <<>> => toks = <<TextToken(input)>>
            /\ \A k \in 1..Len(toks) :
                   (toks[k].type = "text" /\ toks[k].value = <<>>) => input = <<>>

\* C11 witness: the empty input has been tokenized.
C11_Witness ==
    /\ results.called
    /\ input = <<>>
    /\ results.tokens = <<TextToken(<<>>)>>

----------------------------------------------------------------------------
(* Inputs of the layoutWithConfig specification: one attempt of the search *)
(* at a font size and a column count.                                      *)

MaxLineItems == 4

AttemptTokenSeqs ==
    {IF items = <<>> THEN <<TextToken(<<>>)>> ELSE TokensOf(items) :
        items \in SeqsUpTo(Items, MaxLineItems)}

\* A font size at which every glyph is narrower than a column, and one at
\* which the wide glyph (50px) is wider than each of two columns (48px).
AttemptFontSizes == {12, 50}

\* A line height above and one below the sum of the default ascent and
\* descent of a line (0.8 + 0.2).
AttemptLineHeights == {120, 90}

AttemptConfig(fontSize, lineHeight) ==
    [fontSize |-> fontSize, minFontSize |-> fontSize, lineHeight |-> lineHeight,
     maxColumns |-> MaxCols, columnGap |-> 400]

AttemptRect == [x |-> 1000, y |-> 500, width |-> 10000, height |-> 14000]

InitLayoutWithConfig ==
    /\ tokens \in AttemptTokenSeqs
    /\ attemptArgs \in [fontSize : AttemptFontSizes, columns : 1..MaxCols]
    /\ config \in {AttemptConfig(attemptArgs.fontSize, h) : h \in AttemptLineHeights}
    /\ safeRect = AttemptRect
    /\ autoColumns = TRUE
    /\ ctxAvailable = TRUE
    /\ layout = NoResult
    /\ attemptResult = NoResult
    /\ TokenizerIdle
    /\ GeometryIdle
    /\ UiIdle

\* The width of one of `columns` columns of rect.
columnWidthOf(rect, columns, cfg) ==
    (rect.width - cfg.columnGap * (columns - 1)) \div columns

\* A call of layoutWithConfig(tokens, safeRect, fontSize, columns, config).
\* The field lines is bookkeeping of the model: the lines the packer made.
LayoutWithConfig ==
    /\ ~attemptResult.called
    /\ attemptResult' =
          [called |-> TRUE,
           lines |-> packLines(tokens,
                               columnWidthOf(safeRect, attemptArgs.columns, config),
                               attemptArgs.fontSize, config.lineHeight).lines,
           result |-> layoutWithConfig(tokens, safeRect, attemptArgs.fontSize,
                                       attemptArgs.columns, config)]
    /\ UNCHANGED <<layoutUI, hookVars, layoutVars, layout, tokenizerVars, results, attemptArgs,
                   geometryVars, characterRect, safe, scene>>

NextLayoutWithConfig == LayoutWithConfig

SpecLayoutWithConfig == InitLayoutWithConfig /\ [][NextLayoutWithConfig]_vars

----------------------------------------------------------------------------
(* Properties of layoutWithConfig and the line packer *)

AttemptColumnWidth == columnWidthOf(safeRect, attemptArgs.columns, config)

AttemptSucceeded == attemptResult.called /\ attemptResult.result.success

\* The left edge of a 0-based column.
ColumnLeft(column) == safeRect.x + column * (AttemptColumnWidth + config.columnGap)

\* C12: in every successful layout each placement lies inside its column's
\* horizontal span: left_c <= x and x + width <= left_c + columnWidth, for
\* text characters as well as assets.
C12_PlacementsWithinColumn ==
    AttemptSucceeded =>
        \A k \in 1..Len(attemptResult.result.placements) :
            LET p == attemptResult.result.placements[k]
            IN  /\ ColumnLeft(p.column) <= p.x
                /\ p.x + p.width <= ColumnLeft(p.column) + AttemptColumnWidth

\* The characters and asset names of a token sequence, in order.
RECURSIVE ItemsOf(_)
ItemsOf(toks) ==
    IF toks = <<>> THEN <<>>
    ELSE (IF Head(toks).type = "text" THEN Head(toks).value
          ELSE <<Head(toks).asset.name>>) \o ItemsOf(Tail(toks))

RECURSIVE SumOfSeq(_)
SumOfSeq(s) == IF s = <<>> THEN 0 ELSE Head(s) + SumOfSeq(Tail(s))

\* The newlines that follow a newline or start the content: the line each
\* of them closes holds no run.
BlankNewlines(items) ==
    {i \in 1..Len(items) : items[i] = "\n" /\ (i = 1 \/ items[i - 1] = "\n")}

EmptyLines(lines) == {k \in 1..Len(lines) : lines[k].runs = <<>>}

LineHeights(lines) == [k \in 1..Len(lines) |-> lines[k].height]

\* C19: every newline closes the current line, also a line without a run,
\* so the empty lines are exactly the lines closed by a newline that follows
\* a newline or starts the content (n consecutive newlines between two
\* characters give n - 1 empty lines); every empty line has the height of
\* one line and the columns of a successful layout add up the heights of
\* all lines, the empty ones included; wrapping alone (a content without a
\* newline) never produces an empty line.
C19_NewlinesCloseLines ==
    (attemptResult.called /\ attemptResult.result.packed) =>
        LET lines == attemptResult.lines
            items == ItemsOf(tokens)
        IN  /\ Cardinality(EmptyLines(lines)) =
                   Cardinality(BlankNewlines(items)) + (IF items = <<>> THEN 1 ELSE 0)
            /\ \A k \in EmptyLines(lines) :
                   lines[k].height = attemptArgs.fontSize * config.lineHeight
            /\ attemptResult.result.success =>
                   SumOfSeq(attemptResult.result.columnHeights) =
                       SumOfSeq(LineHeights(lines))
            /\ (items # <<>> /\ \A i \in 1..Len(items) : items[i] # "\n") =>
                   EmptyLines(lines) = {}

\* C19 witness: two newlines between two characters gave one empty line
\* between the lines of the characters, and the column holds three lines.
C19_Witness ==
    /\ AttemptSucceeded
    /\ ItemsOf(tokens) = <<"a", "\n", "\n", "a">>
    /\ Len(attemptResult.lines) = 3
    /\ EmptyLines(attemptResult.lines) = {2}
    /\ attemptResult.result.columnHeights[1] =
           3 * attemptArgs.fontSize * config.lineHeight

\* The size an asset is specified to get in a column: the aspect ratio is
\* naturalWidth / naturalHeight, and 1 when naturalHeight is 0.
SpecifiedAssetSize(asset, fontSize, columnWidth) ==
    LET num == IF asset.naturalHeight = 0 THEN 1 ELSE asset.naturalWidth
        den == IF asset.naturalHeight = 0 THEN 1 ELSE asset.naturalHeight
        height == fontSize * 105
        width == (height * num) \div den
    IN  IF width > columnWidth
        THEN [width |-> columnWidth,
              height |-> (height * columnWidth * den) \div (height * num),
              num |-> num, den |-> den]
        ELSE [width |-> width, height |-> height, num |-> num, den |-> den]

\* width / height is num / den up to the rounding of the two divisions.
KeepsAspect(run, num, den) ==
    LET diff == run.width * den - run.height * num
    IN  -(num + den) <= diff /\ diff <= num + den

RunsOf(lines) == UNION {{lines[k].runs[i] : i \in 1..Len(lines[k].runs)} :
                            k \in 1..Len(lines)}

AssetRuns(lines) == {run \in RunsOf(lines) : run.type = "asset"}

\* C20: an asset run is fontSize * 1.05 high and height * (naturalWidth /
\* naturalHeight) wide, with the aspect ratio 1 when naturalHeight is 0; when
\* that width exceeds columnWidth both are scaled so that the width is
\* columnWidth; so every asset run is at most columnWidth wide and keeps its
\* aspect ratio.
C20_AssetSize ==
    (attemptResult.called /\ attemptResult.result.packed) =>
        \A run \in AssetRuns(attemptResult.lines) :
            LET size == SpecifiedAssetSize(run.asset, attemptArgs.fontSize,
                                           AttemptColumnWidth)
            IN  /\ run.width = size.width
                /\ run.height = size.height
                /\ run.width <= AttemptColumnWidth
                /\ KeepsAspect(run, size.num, size.den)

----------------------------------------------------------------------------
(* Scene geometry (scene.ts).  Lengths are in 1/100 pixel and the scale of *)
(* the character is in 1/100; the products with 0.9, 0.25, 0.75 and 0.1    *)
(* are floor divisions, exact for the inputs below.                        *)

clamp(value, min, max) == Min(Max(value, min), max)

\* image.naturalWidth / image.naturalHeight as the fraction num / den; the
\* ratio is 1 for naturalHeight = 0 and, by ratio || 1, for naturalWidth = 0.
computeCharacterRect(canvasWidth, canvasHeight, img, options) ==
    LET maxWidth == (canvasWidth * 90) \div 100
        width == Min(maxWidth, (canvasWidth * options.scale) \div 100)
        unit == img.naturalHeight = 0 \/ img.naturalWidth = 0
        num == IF unit THEN 1 ELSE img.naturalWidth
        den == IF unit THEN 1 ELSE img.naturalHeight
        height == (width * den) \div num
        baseX == canvasWidth - width - options.margin
        baseY == canvasHeight - height - options.margin
        x == clamp(baseX + options.offsetX,
                   -((width * 25) \div 100), canvasWidth - (width * 75) \div 100)
        y == clamp(baseY + options.offsetY,
                   -((height * 10) \div 100), canvasHeight - (height * 10) \div 100)
    IN  Rect(x, y, width, height)

----------------------------------------------------------------------------
(* Inputs of the computeCharacterRect specification *)

Canvases == {[width |-> 100000, height |-> 100000], DefaultCanvas}

Images ==
    {[loaded |-> TRUE, naturalWidth |-> s[1], naturalHeight |-> s[2]] :
        s \in {<<1, 1>>, <<2, 1>>, <<1, 2>>, <<1, 0>>}}

\* The ends of the sliders of the editor and a scale above the 0.9 cap;
\* the margin of the editor and the margin of the documented example.
CharacterOptionsSet ==
    [scale : {25, 50, 95}, offsetX : {-20000, 0, 20000},
     offsetY : {-20000, 0, 20000}, margin : {4800, 5000}]

InitCharacterRect ==
    /\ canvas \in Canvases
    /\ image \in Images
    /\ characterOptions \in CharacterOptionsSet
    /\ characterRect = NoRect
    /\ padding = DefaultPadding
    /\ safe = NoResult
    /\ textOffset = DefaultOffset
    /\ scene = NoResult
    /\ LayoutIdle
    /\ TokenizerIdle
    /\ AttemptIdle
    /\ UiIdle

\* A call of computeCharacterRect(canvasWidth, canvasHeight, image, options).
ComputeCharacterRect ==
    /\ image.loaded
    /\ ~characterRect.defined
    /\ characterRect' = computeCharacterRect(canvas.width, canvas.height,
                                             image, characterOptions)
    /\ UNCHANGED <<layoutUI, hookVars, layoutVars, layout, tokenizerVars, results, attemptArgs,
                   attemptResult, geometryVars, safe, scene>>

NextCharacterRect == ComputeCharacterRect

SpecCharacterRect == InitCharacterRect /\ [][NextCharacterRect]_vars

----------------------------------------------------------------------------
(* Properties of computeCharacterRect *)

\* C15: for 0 < scale the rectangle has x in [-width * 0.25, canvasWidth -
\* width * 0.75] and y in [-height * 0.1, canvasHeight - height * 0.1], and
\* so extends past a canvas edge by at most 25% of its width on the left and
\* on the right and by at most 10% of its height at the top and at the
\* bottom.
C15_CharacterRectBleed ==
    (characterRect.defined /\ characterOptions.scale > 0) =>
        LET r == characterRect
            quarter == (r.width * 25) \div 100
            tenth == (r.height * 10) \div 100
        IN  /\ -quarter <= r.x
            /\ r.x <= canvas.width - (r.width * 75) \div 100
            /\ -tenth <= r.y
            /\ r.y <= canvas.height - tenth
            /\ 0 - r.x <= quarter
            /\ r.x + r.width - canvas.width <= quarter
            /\ 0 - r.y <= tenth
            /\ r.y + r.height - canvas.height <= tenth

----------------------------------------------------------------------------
(* computeSafeRect *)

MinOuterSide == 1000

MinCandidateSide == 2000

outerRect(canvasWidth, canvasHeight, outerPadding) ==
    Rect(outerPadding, outerPadding,
         Max(canvasWidth - outerPadding * 2, MinOuterSide),
         Max(canvasHeight - outerPadding * 2, MinOuterSide))

\* leftRect reaching safePadding past the left edge of the character.
leftRectPastEdge(outer, charRect, safePadding) ==
    Rect(outer.x, outer.y, Max(charRect.x + safePadding - outer.x, 0), outer.height)

leftRect(outer, charRect, safePadding) ==
    Rect(outer.x, outer.y, Max(charRect.x - safePadding - outer.x, 0), outer.height)

topRect(outer, charRect, safePadding) ==
    Rect(outer.x, outer.y, outer.width, Max(charRect.y - safePadding - outer.y, 0))

rightRect(outer, charRect, safePadding) ==
    LET rightX == charRect.x + charRect.width + safePadding
    IN  Rect(rightX, outer.y, Max(outer.x + outer.width - rightX, 0), outer.height)

\* The filter of the candidates.
largeEnough(rect) == rect.width > MinCandidateSide /\ rect.height > MinCandidateSide

RECURSIVE filterCandidates(_)
filterCandidates(rects) ==
    IF rects = <<>> THEN <<>>
    ELSE (IF largeEnough(Head(rects)) THEN <<Head(rects)>> ELSE <<>>)
             \o filterCandidates(Tail(rects))

area(rect) == rect.width * rect.height

\* insertByArea putting a rectangle before the rectangles of the same area.
RECURSIVE insertByAreaFirst(_, _)
insertByAreaFirst(rect, sorted) ==
    IF sorted = <<>> THEN <<rect>>
    ELSE IF area(Head(sorted)) > area(rect)
         THEN <<Head(sorted)>> \o insertByAreaFirst(rect, Tail(sorted))
         ELSE <<rect>> \o sorted

\* Array.prototype.sort with the comparator b.area - a.area: a stable sort
\* by descending area, so a rectangle goes behind those of the same area
\* that precede it.
RECURSIVE insertByArea(_, _)
insertByArea(rect, sorted) ==
    IF sorted = <<>> THEN <<rect>>
    ELSE IF area(Head(sorted)) >= area(rect)
         THEN <<Head(sorted)>> \o insertByArea(rect, Tail(sorted))
         ELSE <<rect>> \o sorted

RECURSIVE sortByArea(_)
sortByArea(rects) ==
    IF rects = <<>> THEN <<>>
    ELSE insertByArea(rects[Len(rects)], sortByArea(SubSeq(rects, 1, Len(rects) - 1)))

\* The choice among the candidates once the character rectangle is known.
chooseCandidate(outer, candidates) ==
    IF candidates = <<>> THEN outer ELSE Head(sortByArea(candidates))

computeSafeRect(canvasWidth, canvasHeight, charRect, outerPadding, safePadding) ==
    LET outer == outerRect(canvasWidth, canvasHeight, outerPadding)
    IN  IF ~charRect.defined THEN outer
        ELSE chooseCandidate(outer,
                 filterCandidates(<<leftRect(outer, charRect, safePadding),
                                    topRect(outer, charRect, safePadding),
                                    rightRect(outer, charRect, safePadding)>>))

----------------------------------------------------------------------------
(* Inputs of the computeSafeRect specification *)

\* A square canvas, a flat one, and one narrower than twice the padding.
SmallCanvases ==
    {[width |-> 7000, height |-> 7000], [width |-> 7000, height |-> 4600],
     [width |-> 1500, height |-> 7000]}

Paddings == [outer : {0, 1000}, safe : {0, 500}]

CharacterRects ==
    {Rect(x, y, w, h) : x \in {-500, 0, 2500, 4500, 5000},
                        y \in {-500, 0, 2500, 4500},
                        w \in {2000, 3000}, h \in {2000, 3000}}

InitSafeRect ==
    /\ canvas \in SmallCanvases
    /\ characterRect \in {NoRect} \cup CharacterRects
    /\ padding \in Paddings
    /\ safe = NoResult
    /\ image = NoImage
    /\ characterOptions = DefaultCharacterOptions
    /\ textOffset = DefaultOffset
    /\ scene = NoResult
    /\ LayoutIdle
    /\ TokenizerIdle
    /\ AttemptIdle
    /\ UiIdle

\* A call of computeSafeRect(canvasWidth, canvasHeight, characterRect,
\* outerPadding, safePadding).
ComputeSafeRect ==
    /\ ~safe.called
    /\ safe' = [called |-> TRUE,
                rect |-> computeSafeRect(canvas.width, canvas.height, characterRect,
                                         padding.outer, padding.safe)]
    /\ UNCHANGED <<layoutUI, hookVars, layoutVars, layout, tokenizerVars, results, attemptArgs,
                   attemptResult, geometryVars, characterRect, scene>>

NextSafeRect == ComputeSafeRect

SpecSafeRect == InitSafeRect /\ [][NextSafeRect]_vars

----------------------------------------------------------------------------
(* Properties of computeSafeRect *)

Outer == outerRect(canvas.width, canvas.height, padding.outer)

\* The candidates left of, above and right of the character rectangle.
Candidates ==
    <<leftRect(Outer, characterRect, padding.safe),
      topRect(Outer, characterRect, padding.safe),
      rightRect(Outer, characterRect, padding.safe)>>

Survivors == {i \in 1..3 : Candidates[i].width > 2000 /\ Candidates[i].height > 2000}

\* Two rectangles overlap when they share a region of positive area.
Overlaps(a, b) ==
    /\ a.x < b.x + b.width /\ b.x < a.x + a.width
    /\ a.y < b.y + b.height /\ b.y < a.y + a.height

\* C13: with a character rectangle and a non-negative safePadding the
\* rectangle computeSafeRect returns does not overlap the character
\* rectangle, unless all three candidates fail the 20px minimum, and then
\* it is the full outer rectangle.
C13_SafeRectAvoidsCharacter ==
    (safe.called /\ characterRect.defined /\ padding.safe >= 0) =>
        IF Survivors = {} THEN safe.rect = Outer
        ELSE ~Overlaps(safe.rect, characterRect)

\* C13 witness: a character rectangle at the top right corner, a candidate
\* survives and the returned rectangle is not the outer one.
C13_Witness ==
    /\ safe.called
    /\ characterRect.defined
    /\ characterRect.y <= Outer.y
    /\ characterRect.x + characterRect.width >= Outer.x + Outer.width
    /\ Overlaps(Outer, characterRect)
    /\ Survivors # {}
    /\ safe.rect # Outer
    /\ ~Overlaps(safe.rect, characterRect)

\* C14: without a character rectangle computeSafeRect returns the outer
\* rectangle; with one it returns the candidate of maximum area among those
\* wider and higher than 20px, on equal area the earlier of left, above and
\* right, and the outer rectangle when no candidate is.
C14_LargestSurvivingCandidate ==
    safe.called =>
        IF ~characterRect.defined \/ Survivors = {} THEN safe.rect = Outer
        ELSE \E i \in Survivors :
                /\ safe.rect = Candidates[i]
                /\ \A j \in Survivors :
                      /\ area(Candidates[j]) <= area(Candidates[i])
                      /\ area(Candidates[j]) = area(Candidates[i]) => i <= j

\* C14 witness: the left and the right candidate survive with the same
\* area, larger than the area above, and the left one is returned.
C14_Witness ==
    /\ safe.called
    /\ characterRect.defined
    /\ {1, 3} \subseteq Survivors
    /\ area(Candidates[1]) = area(Candidates[3])
    /\ \A j \in Survivors : area(Candidates[j]) <= area(Candidates[1])
    /\ Candidates[1] # Candidates[3]
    /\ safe.rect = Candidates[1]

----------------------------------------------------------------------------
(* Post-processor: alignLayout and applyTextOffset (scene.ts) *)

WarnOutsideSafeRect == "text outside safe area"

\* placements.map adding dx to x and dy to y and baseline.
shiftPlacements(placements, dx, dy) ==
    [k \in 1..Len(placements) |->
        [placements[k] EXCEPT !.x = @ + dx, !.y = @ + dy, !.baseline = @ + dy]]

\* appliedOffset without the cap safeRect.height - maxHeight.
appliedOffsetUncapped(maxHeight, rect, charRect) ==
    LET safeTop == rect.y
        safeBottom == rect.y + rect.height
        targetTopRaw == IF charRect.defined THEN charRect.y ELSE safeTop
        targetTop == Min(Max(targetTopRaw, safeTop), safeBottom)
    IN  Max(0, targetTop - safeTop)

appliedOffset(maxHeight, rect, charRect) ==
    LET safeTop == rect.y
        safeBottom == rect.y + rect.height
        targetTopRaw == IF charRect.defined THEN charRect.y ELSE safeTop
        targetTop == Min(Max(targetTopRaw, safeTop), safeBottom)
        desiredOffset == Max(0, targetTop - safeTop)
        maxOffset == Max(0, rect.height - maxHeight)
    IN  Min(desiredOffset, maxOffset)

\* The tail of alignLayout once the offset is known.
alignBy(lay, offsetY) ==
    IF offsetY <= 0 THEN lay
    ELSE [lay EXCEPT !.placements = shiftPlacements(lay.placements, 0, offsetY)]

alignLayout(lay, rect, charRect) ==
    IF ~lay.success \/ Len(lay.columnHeights) = 0 THEN lay
    ELSE IF MaxOfSeq(lay.columnHeights) <= 0 THEN lay
    ELSE alignBy(lay, appliedOffset(MaxOfSeq(lay.columnHeights), rect, charRect))

\* Whether the bounding box the map of applyTextOffset accumulates has an
\* edge outside rect.  Without a placement minX and minY stay +Infinity and
\* maxX and maxY stay -Infinity, and no comparison holds.
boundingBoxOutside(placements, rect) ==
    IF placements = <<>> THEN FALSE
    ELSE LET ks == 1..Len(placements)
             minX == CHOOSE v \in {placements[k].x : k \in ks} :
                         \A k \in ks : v <= placements[k].x
             maxX == CHOOSE v \in {placements[k].x + placements[k].width : k \in ks} :
                         \A k \in ks : v >= placements[k].x + placements[k].width
             minY == CHOOSE v \in {placements[k].y : k \in ks} :
                         \A k \in ks : v <= placements[k].y
             maxY == CHOOSE v \in {placements[k].y + placements[k].height : k \in ks} :
                         \A k \in ks : v >= placements[k].y + placements[k].height
         IN  \/ minX < rect.x
             \/ maxX > rect.x + rect.width
             \/ minY < rect.y
             \/ maxY > rect.y + rect.height

includes(warnings, text) == \E k \in 1..Len(warnings) : warnings[k] = text

\* pushWarning without the includes test.
pushWarningAlways(warnings, outside) ==
    IF outside THEN Append(warnings, WarnOutsideSafeRect) ELSE warnings

\* The warnings applyTextOffset returns.
pushWarning(warnings, outside) ==
    IF outside /\ ~includes(warnings, WarnOutsideSafeRect)
    THEN Append(warnings, WarnOutsideSafeRect)
    ELSE warnings

\* The tail of applyTextOffset once the placements are shifted.
offsetResult(lay, placements, rect) ==
    [lay EXCEPT !.placements = placements,
                !.warnings = pushWarning(lay.warnings,
                                         boundingBoxOutside(placements, rect))]

applyTextOffset(lay, offsetX, offsetY, rect) ==
    IF ~lay.success THEN lay
    ELSE IF offsetX = 0 /\ offsetY = 0 THEN lay
    ELSE offsetResult(lay, shiftPlacements(lay.placements, offsetX, offsetY), rect)

----------------------------------------------------------------------------
(* computeScene.  The fields rawLayout and alignedLayout of the result are *)
(* bookkeeping of the model: the layouts before and after alignLayout.     *)

sceneResult(rect, charRect, raw, aligned, offsetLayout) ==
    [called |-> TRUE, safeRect |-> rect, characterRect |-> charRect,
     rawLayout |-> raw, alignedLayout |-> aligned,
     layout |-> offsetLayout, warnings |-> offsetLayout.warnings]

sceneOfAligned(rect, charRect, raw, aligned, off) ==
    sceneResult(rect, charRect, raw, aligned,
                applyTextOffset(aligned, off.x, off.y, rect))

sceneOfLayout(rect, charRect, raw, off) ==
    sceneOfAligned(rect, charRect, raw, alignLayout(raw, rect, charRect), off)

sceneOfSafeRect(rect, charRect, text, inlineAssets, cfg, autoCols, off, ctxOk) ==
    sceneOfLayout(rect, charRect,
                  autoLayout(tokenizeText(text, inlineAssets), cfg, rect, autoCols, ctxOk),
                  off)

sceneOfCharacterRect(cv, charRect, text, inlineAssets, cfg, pad, autoCols, off, ctxOk) ==
    sceneOfSafeRect(computeSafeRect(cv.width, cv.height, charRect, pad.outer, pad.safe),
                    charRect, text, inlineAssets, cfg, autoCols, off, ctxOk)

computeScene(cv, img, charOptions, text, inlineAssets, cfg, pad, autoCols, off, ctxOk) ==
    sceneOfCharacterRect(cv,
                         IF img.loaded
                         THEN computeCharacterRect(cv.width, cv.height, img, charOptions)
                         ELSE NoRect,
                         text, inlineAssets, cfg, pad, autoCols, off, ctxOk)

----------------------------------------------------------------------------
(* Inputs of the computeScene specification *)

\* The texts: characters, newlines and markers of a registered asset.
SceneFragments ==
    {<<"a">>, <<"W">>, <<"\n">>, MarkerPrefix \o <<"x", "1">> \o MarkerSuffix}

SceneInputs == {Concat(fs) : fs \in SeqsUpTo(SceneFragments, MaxItems)}

\* A 70px by 45.8px canvas: the outer rectangle is 50px by 25.8px, so two
\* lines of 13px fit only by the half pixel of tolerance.
SceneCanvas == [width |-> 7000, height |-> 4580]

ScenePadding == [outer |-> 1000, safe |-> 200]

\* A 21px square character at the bottom right, at the top right, and
\* moved down so that its top is 5.8px above the bottom of the canvas.
SceneImage == [loaded |-> TRUE, naturalWidth |-> 1, naturalHeight |-> 1]

SceneCharacterOptions ==
    [scale : {30}, offsetX : {0}, offsetY : {0, -2480, 1520}, margin : {0}]

SceneConfigs ==
    {c \in Configs : c.maxColumns >= 1 /\ c.minFontSize <= c.fontSize}

SceneOffsets == [x : {0, 4000}, y : {-100, 0, 2000}]

InitScene ==
    /\ input \in SceneInputs
    /\ assets = InlineAssets
    /\ results = NoResult
    /\ canvas = SceneCanvas
    /\ \/ image = NoImage /\ characterOptions = DefaultCharacterOptions
       \/ image = SceneImage /\ characterOptions \in SceneCharacterOptions
    /\ padding = ScenePadding
    /\ config \in SceneConfigs
    /\ autoColumns = TRUE
    /\ ctxAvailable = TRUE
    /\ textOffset \in SceneOffsets
    /\ tokens = <<TextToken(<<>>)>>
    /\ safeRect = [x |-> 0, y |-> 0, width |-> 0, height |-> 0]
    /\ layout = NoResult
    /\ characterRect = NoRect
    /\ safe = NoResult
    /\ scene = NoResult
    /\ AttemptIdle
    /\ UiIdle

\* A call of computeScene(params).
ComputeScene ==
    /\ ~scene.called
    /\ scene' = computeScene(canvas, image, characterOptions, input, assets,
                             config, padding, autoColumns, textOffset, ctxAvailable)
    /\ UNCHANGED <<layoutUI, hookVars, layoutVars, layout, tokenizerVars, results, attemptArgs,
                   attemptResult, geometryVars, characterRect, safe>>

NextScene == ComputeScene

SpecScene == InitScene /\ [][NextScene]_vars

----------------------------------------------------------------------------
(* Properties of the post-processor *)

LaidOut == scene.called /\ scene.rawLayout.success

Occurs(warnings, text) == Cardinality({k \in 1..Len(warnings) : warnings[k] = text})

\* A placement with an edge outside rect.
PlacementOutside(p, rect) ==
    \/ p.x < rect.x
    \/ p.x + p.width > rect.x + rect.width
    \/ p.y < rect.y
    \/ p.y + p.height > rect.y + rect.height

SomePlacementOutside(placements, rect) ==
    \E k \in 1..Len(placements) : PlacementOutside(placements[k], rect)

\* applyTextOffset applied again, with the same offset, to what it returned.
OffsetAgain == applyTextOffset(scene.layout, textOffset.x, textOffset.y, scene.safeRect)

\* C16: a non-zero offset that pushes a placement of a successful layout
\* outside the safe rectangle adds exactly one boundary warning, and
\* applyTextOffset applied again to that result with the same offset leaves
\* exactly one occurrence of it.
C16_OneBoundaryWarning ==
    (/\ LaidOut
     /\ textOffset # [x |-> 0, y |-> 0]
     /\ SomePlacementOutside(scene.layout.placements, scene.safeRect)) =>
        /\ Occurs(scene.alignedLayout.warnings, WarnOutsideSafeRect) = 0
        /\ Occurs(scene.warnings, WarnOutsideSafeRect) = 1
        /\ Len(scene.warnings) = Len(scene.alignedLayout.warnings) + 1
        /\ Occurs(OffsetAgain.warnings, WarnOutsideSafeRect) = 1
        /\ OffsetAgain.warnings = scene.warnings

\* C16 witness: the offset moved a placement that was inside the safe
\* rectangle out of it, and the second application moved it again.
C16_Witness ==
    /\ LaidOut
    /\ textOffset # [x |-> 0, y |-> 0]
    /\ scene.layout.placements # <<>>
    /\ ~SomePlacementOutside(scene.alignedLayout.placements, scene.safeRect)
    /\ SomePlacementOutside(scene.layout.placements, scene.safeRect)
    /\ Occurs(scene.warnings, WarnOutsideSafeRect) = 1
    /\ OffsetAgain.placements # scene.layout.placements

\* C17: for every successful layout and every offset, (0, 0) included, the
\* result holds the boundary warning when an edge of the bounding box of
\* the resulting placements is outside the safe rectangle, and no warning
\* is added when the box is inside; a failed layout is returned unchanged.
C17_WarningIffOutside ==
    scene.called =>
        IF scene.rawLayout.success
        THEN IF SomePlacementOutside(scene.layout.placements, scene.safeRect)
             THEN includes(scene.warnings, WarnOutsideSafeRect)
             ELSE scene.warnings = scene.alignedLayout.warnings
        ELSE scene.layout = scene.alignedLayout

\* The shift alignLayout is specified to apply.
SpecifiedShift ==
    LET safeTop == scene.safeRect.y
        safeBottom == scene.safeRect.y + scene.safeRect.height
        targetTop == IF scene.characterRect.defined THEN scene.characterRect.y
                     ELSE safeTop
    IN  Min(Max(0, clamp(targetTop, safeTop, safeBottom) - safeTop),
            Max(0, scene.safeRect.height - MaxOfSeq(scene.rawLayout.columnHeights)))

\* C18: alignLayout shifts y and baseline of every placement of a
\* successful layout by d = min(max(0, clamp(targetTop, safeTop, safeBottom)
\* - safeTop), max(0, safeRect.height - max(columnHeights))) and changes
\* nothing else; it returns the layout unchanged when d <= 0 or the layout
\* failed; so no placement's bottom moves past the safe rectangle's bottom.
C18_AlignShift ==
    scene.called =>
        IF scene.rawLayout.success /\ SpecifiedShift > 0
        THEN /\ scene.alignedLayout =
                    [scene.rawLayout EXCEPT !.placements =
                        [k \in 1..Len(scene.rawLayout.placements) |->
                            [scene.rawLayout.placements[k] EXCEPT
                                !.y = @ + SpecifiedShift,
                                !.baseline = @ + SpecifiedShift]]]
             /\ \A k \in 1..Len(scene.alignedLayout.placements) :
                    LET p == scene.alignedLayout.placements[k]
                    IN  p.y + p.height <= scene.safeRect.y + scene.safeRect.height
        ELSE scene.alignedLayout = scene.rawLayout

\* C18 witness: the character's top is below the block's room, so the
\* shift is the room left under the block, and placements moved.
C18_Witness ==
    /\ LaidOut
    /\ scene.characterRect.defined
    /\ scene.rawLayout.placements # <<>>
    /\ SpecifiedShift > 0
    /\ SpecifiedShift =
           scene.safeRect.height - MaxOfSeq(scene.rawLayout.columnHeights)
    /\ SpecifiedShift < scene.characterRect.y - scene.safeRect.y
    /\ scene.alignedLayout.placements[1].y = scene.rawLayout.placements[1].y + SpecifiedShift

----------------------------------------------------------------------------
(* Properties of the lines of the packer *)

\* The maximum of a default and the values of a set.
MaxWith(default, values) ==
    CHOOSE m \in values \cup {default} : \A v \in values \cup {default} : m >= v

\* The line after one more character or asset is pushed on it, or the line
\* itself when the push closes it and starts a new line.
Appended(line, item) ==
    LET st == [line |-> line, lines |-> <<>>, measured |-> 0]
        next == IF IsAssetName(item)
                THEN pushAssetToken(AssetByName(item), st, AttemptColumnWidth,
                                    attemptArgs.fontSize, config.lineHeight)
                ELSE pushChar(item, st, AttemptColumnWidth,
                              attemptArgs.fontSize, config.lineHeight)
    IN  IF next.lines = <<>> THEN next.line ELSE line

\* C21: every line of the packer, the empty lines closed by newlines
\* included and for any lineHeightRatio, has the height max(fontSize *
\* lineHeightRatio, ascent + descent), where ascent and descent are the
\* maxima over its runs and the defaults fontSize * 0.8 and fontSize * 0.2;
\* appending a run to a line never decreases its ascent, descent or height.
C21_LineHeight ==
    (attemptResult.called /\ attemptResult.result.packed) =>
        \A k \in 1..Len(attemptResult.lines) :
            LET line == attemptResult.lines[k]
                runs == {line.runs[i] : i \in 1..Len(line.runs)}
            IN  /\ line.ascent = MaxWith(attemptArgs.fontSize * 80,
                                         {run.ascent : run \in runs})
                /\ line.descent = MaxWith(attemptArgs.fontSize * 20,
                                          {run.descent : run \in runs})
                /\ line.height = Max(attemptArgs.fontSize * config.lineHeight,
                                     line.ascent + line.descent)
                /\ \A item \in Items \ {"\n"} :
                       /\ Appended(line, item).ascent >= line.ascent
                       /\ Appended(line, item).descent >= line.descent
                       /\ Appended(line, item).height >= line.height

----------------------------------------------------------------------------
(* Properties of the placements *)

\* The characters and asset names of the tokens without the newlines.
PlacedItems == SelectSeq(ItemsOf(tokens), LAMBDA item : item # "\n")

\* Whether a placement is the placement of an item.
PlacementOf(p, item) ==
    IF IsAssetName(item)
    THEN p.type = "asset" /\ p.asset = AssetByName(item) /\ p.value = p.asset.id
    ELSE p.type = "text" /\ p.value = <<item>>

\* C22: in every successful layout the placements, in list order, are the
\* characters of the text tokens without the newlines and the assets of the
\* asset tokens, in token order and each once; along the list the column
\* never decreases and, within a column, y never decreases.
C22_PlacementsInOrder ==
    AttemptSucceeded =>
        LET pl == attemptResult.result.placements
        IN  /\ Len(pl) = Len(PlacedItems)
            /\ \A k \in 1..Len(pl) : PlacementOf(pl[k], PlacedItems[k])
            /\ \A k \in 1..(Len(pl) - 1) :
                   /\ pl[k].column <= pl[k + 1].column
                   /\ pl[k].column = pl[k + 1].column => pl[k].y <= pl[k + 1].y

\* C22 witness: a content with a newline and an asset was placed on several
\* lines of the first column and went on into the second one.
C22_Witness ==
    /\ AttemptSucceeded
    /\ \E i \in 1..Len(ItemsOf(tokens)) : ItemsOf(tokens)[i] = "\n"
    /\ LET pl == attemptResult.result.placements
       IN  /\ Len(pl) >= 3
           /\ \E k \in 1..Len(pl) : pl[k].type = "asset"
           /\ pl[1].column = 0
           /\ pl[Len(pl)].column = 1
           /\ \E k \in 1..(Len(pl) - 1) :
                  pl[k].column = pl[k + 1].column /\ pl[k].y < pl[k + 1].y

----------------------------------------------------------------------------
(* Properties of the safe rectangle of a scene *)

\* Whether rectangle a lies within rectangle b.
Contained(a, b) ==
    /\ b.x <= a.x /\ a.x + a.width <= b.x + b.width
    /\ b.y <= a.y /\ a.y + a.height <= b.y + b.height

\* C23: with the character rectangle computeCharacterRect produces, the
\* rectangle computeSafeRect returns lies within the outer rectangle (the
\* canvas inset by outerPadding on all sides) and is at least 10px wide and
\* 10px high, so autoLayout never takes its branch for a degenerate safe
\* rectangle.
C23_SafeRectWithinOuter ==
    scene.called =>
        /\ Contained(scene.safeRect, Outer)
        /\ scene.safeRect.width >= 1000
        /\ scene.safeRect.height >= 1000
        /\ ~includes(scene.rawLayout.warnings, WarnInvalidSafeRect)

----------------------------------------------------------------------------
(* The font size sliders of the editor (App.tsx 690-715).  A change event  *)
(* of a range input carries a value of its range: min + k * step, at most  *)
(* max.                                                                    *)

FontSizeSliderMin == 36

FontSizeSliderMax == 120

MinFontSizeSliderMin == 16

SliderStep == 2

\* The values a range input reports.
rangeValues(min, max, step) == {v \in min..max : (v - min) % step = 0}

InitSliders ==
    /\ layoutUI = DefaultLayoutUI
    /\ hookSrc = NoSource
    /\ hookImage = NoImage
    /\ hookLoads = <<>>
    /\ hookEffectPending = FALSE
    /\ LayoutIdle
    /\ TokenizerIdle
    /\ AttemptIdle
    /\ GeometryIdle

\* onChange of the base font size slider.
ChangeFontSize ==
    /\ \E v \in rangeValues(FontSizeSliderMin, FontSizeSliderMax, SliderStep) :
           layoutUI' = [layoutUI EXCEPT !.fontSize = v]
    /\ UNCHANGED <<hookVars, layoutVars, layout, tokenizerVars, results, attemptArgs,
                   attemptResult, geometryVars, characterRect, safe, scene>>

\* onChange of the minimum font size slider, whose max is layoutUI.fontSize.
ChangeMinFontSize ==
    /\ \E v \in rangeValues(MinFontSizeSliderMin, layoutUI.fontSize, SliderStep) :
           layoutUI' = [layoutUI EXCEPT !.minFontSize = v]
    /\ UNCHANGED <<hookVars, layoutVars, layout, tokenizerVars, results, attemptArgs,
                   attemptResult, geometryVars, characterRect, safe, scene>>

NextSliders == ChangeFontSize \/ ChangeMinFontSize

SpecSliders == InitSliders /\ [][NextSliders]_vars

\* C24: after any sequence of changes of the two sliders the minimum font
\* size is at most the base font size, so the loop of
\* findFontSizeForColumns is entered at the base font size.
C24_MinFontSizeAtMostFontSize ==
    /\ layoutUI.minFontSize <= layoutUI.fontSize
    /\ fontSizeInRange(layoutUI.fontSize,
                       [DefaultConfig EXCEPT !.fontSize = layoutUI.fontSize,
                                             !.minFontSize = layoutUI.minFontSize])

----------------------------------------------------------------------------
(* useLoadedImage (App.tsx 13-41).  A render with a new src schedules the  *)
(* effect; the effect runs the cleanup of the effect before it and then    *)
(* its own body; the load and error events of every Image created fire     *)
(* later, once, in any order.  A load is [src, cancelled, state]; its      *)
(* field order is bookkeeping of the model: how many loads had settled     *)
(* when it settled.                                                        *)

MaxLoads == 3

Sources == {"a.png", "b.png"}

ImageOf(i, src) == [loaded |-> TRUE, load |-> i, src |-> src]

NewLoad(src) == [src |-> src, cancelled |-> FALSE, state |-> "pending", order |-> 0]

\* The cleanup of the effect that ran last: cancelled = true for its Image.
cleanup(loads) ==
    IF loads = <<>> THEN loads
    ELSE [loads EXCEPT ![Len(loads)].cancelled = TRUE]

\* setImageUnlessCancelled without the test of cancelled.
setImageAlways(cancelled, current, value) == value

\* if (!cancelled) setImage(value) in onload and onerror.
setImageUnlessCancelled(cancelled, current, value) ==
    IF cancelled THEN current ELSE value

Settled(loads) == Cardinality({i \in 1..Len(loads) : loads[i].state # "pending"})

InitHook ==
    /\ hookSrc \in Sources \cup {NoSource}
    /\ hookImage = NoImage
    /\ hookLoads = <<>>
    /\ hookEffectPending = TRUE
    /\ layoutUI = DefaultLayoutUI
    /\ LayoutIdle
    /\ TokenizerIdle
    /\ AttemptIdle
    /\ GeometryIdle

\* A render of the component with another src: the effect is scheduled.
\* The effect of the render before has run by then.
RenderSrc ==
    /\ ~hookEffectPending
    /\ \E s \in Sources \cup {NoSource} :
          /\ s # hookSrc
          /\ s # NoSource => Len(hookLoads) < MaxLoads
          /\ hookSrc' = s
    /\ hookEffectPending' = TRUE
    /\ UNCHANGED <<hookImage, hookLoads, layoutUI, layoutVars, layout, tokenizerVars,
                   results, attemptArgs, attemptResult, geometryVars,
                   characterRect, safe, scene>>

\* The effect: the cleanup of the effect before, then setImage(null) for no
\* src, or a new Image whose loading starts.
RunEffect ==
    /\ hookEffectPending
    /\ hookEffectPending' = FALSE
    /\ IF hookSrc = NoSource
       THEN /\ hookImage' = NoImage
            /\ hookLoads' = cleanup(hookLoads)
       ELSE /\ hookImage' = hookImage
            /\ hookLoads' = Append(cleanup(hookLoads), NewLoad(hookSrc))
    /\ UNCHANGED <<hookSrc, layoutUI, layoutVars, layout, tokenizerVars,
                   results, attemptArgs, attemptResult, geometryVars,
                   characterRect, safe, scene>>

\* img.onload of the i-th Image.
OnLoad ==
    /\ \E i \in 1..Len(hookLoads) :
          /\ hookLoads[i].state = "pending"
          /\ hookImage' = setImageUnlessCancelled(hookLoads[i].cancelled, hookImage,
                                                  ImageOf(i, hookLoads[i].src))
          /\ hookLoads' = [hookLoads EXCEPT ![i].state = "loaded",
                                            ![i].order = Settled(hookLoads)]
    /\ UNCHANGED <<hookSrc, hookEffectPending, layoutUI, layoutVars, layout,
                   tokenizerVars, results, attemptArgs, attemptResult,
                   geometryVars, characterRect, safe, scene>>

\* img.onerror of the i-th Image.
OnError ==
    /\ \E i \in 1..Len(hookLoads) :
          /\ hookLoads[i].state = "pending"
          /\ hookImage' = setImageUnlessCancelled(hookLoads[i].cancelled, hookImage,
                                                  NoImage)
          /\ hookLoads' = [hookLoads EXCEPT ![i].state = "failed",
                                            ![i].order = Settled(hookLoads)]
    /\ UNCHANGED <<hookSrc, hookEffectPending, layoutUI, layoutVars, layout,
                   tokenizerVars, results, attemptArgs, attemptResult,
                   geometryVars, characterRect, safe, scene>>

NextHook == RenderSrc \/ RunEffect \/ OnLoad \/ OnError

SpecHook == InitHook /\ [][NextHook]_vars

----------------------------------------------------------------------------
(* Properties of useLoadedImage *)

\* The effect of the latest src has run and, for a src, its load settled.
LatestSettled ==
    /\ ~hookEffectPending
    /\ hookSrc # NoSource =>
           hookLoads # <<>> /\ hookLoads[Len(hookLoads)].state # "pending"

\* The image state the latest src stands for.
LatestImage ==
    IF hookSrc = NoSource THEN NoImage
    ELSE IF hookLoads[Len(hookLoads)].state = "loaded"
         THEN ImageOf(Len(hookLoads), hookSrc)
         ELSE NoImage

\* A step in which the callback of a load cancelled by a cleanup fires.
SupersededSettles ==
    \E i \in 1..Len(hookLoads) :
        /\ hookLoads[i].cancelled
        /\ hookLoads[i].state = "pending"
        /\ hookLoads'[i].state # "pending"

====
